---- MODULE Spec2Model ----
(***************************************************************************)
(* Match scoring of the job-application backend.                           *)
(*                                                                         *)
(* The state is the stored data of one user (profile skills, job           *)
(* preferences, subscription, applications, analytics, activity log) and   *)
(* one job posting, plus the last HTTP response.  Each action is one       *)
(* request handler of routes/jobs, routes/applications or routes/ai.       *)
(*                                                                         *)
(* SpecBilling runs POST /api/applications await by await for two          *)
(* requests at once, next to the Stripe webhook, the subscription read     *)
(* and the change of month; SpecWebhook runs webhook deliveries with and   *)
(* without an endpoint secret; SpecAccounts runs login, token refresh,     *)
(* token revocation and password reset; SpecRoles runs the two handlers    *)
(* that write a user's role; SpecActive runs the handlers that read a      *)
(* user's isActive flag next to the one that writes it; SpecLimiter runs   *)
(* one userRateLimit middleware for two users and requests without a user, *)
(* a response of 200 standing for its call of next().                      *)
(*                                                                         *)
(* A string is a sequence of one-character strings, so that toLowerCase    *)
(* and String.prototype.includes are computed character by character.      *)
(* A score before rounding is an exact fraction [num, den]; Math.round is  *)
(* floor(x + 1/2).  IEEE doubles agree with the exact value for every      *)
(* required-skills count below 40, far above the bounds used here.         *)
(***************************************************************************)
EXTENDS Integers, Sequences, FiniteSets, TLC

VARIABLES
    skills,             \* profile.skills[*].name, in stored order
    prefs,              \* the user's jobPreferences row
    job,                \* the job row
    subscription,       \* the user's subscription row
    applications,       \* application rows of (user, job), in creation order
    totalApplications,  \* userAnalytics.totalApplications
    activityLog,        \* activityLog rows of the user (their action)
    res,                \* the last response sent
    notifications,      \* notification rows of the user (their type)
    calls,              \* POST /api/applications requests in progress
    served,             \* requests and webhook deliveries accepted so far
    month,              \* the calendar month of the server clock
    uniqueIndex,        \* whether applications has a unique (userId, jobId) index
    endpointSecret,     \* whether STRIPE_WEBHOOK_SECRET is configured
    succeeded,          \* job ids whose application was answered 201
    late,               \* <<job id, status>> answered after a 201 for that job
    users,              \* user rows by id: email, role, isActive
    accessTokens,       \* access tokens signed so far (their payload)
    refreshTokens,      \* refresh tokens signed so far (their payload)
    issued,             \* number of token pairs signed so far
    revokedTokens,      \* refresh tokens signed before a revocation of their user
    outbox,             \* addresses a password-reset mail was delivered to
    maxRequests,        \* first argument of the userRateLimit call
    windowMs,           \* second argument of the userRateLimit call
    requests,           \* the limiter's Map: user id -> { count, resetTime }
    now,                \* Date.now()
    passes              \* per user and time, the calls of next() by the limiter

\* what the billing and application requests add to the scoring state
billing == <<notifications, calls, served, month, uniqueIndex, endpointSecret,
             succeeded, late>>

\* what the account routes add
account == <<users, accessTokens, refreshTokens, issued, revokedTokens, outbox>>

\* one limiter made by userRateLimit, and the clock it reads
limiter == <<maxRequests, windowMs, requests, now, passes>>

aside == <<billing, account, limiter>>

vars == <<skills, prefs, job, subscription, applications, totalApplications,
          activityLog, res, aside>>

db == <<skills, prefs, job, subscription, applications, totalApplications,
        activityLog>>

-----------------------------------------------------------------------------
(* Bounds *)

MaxStrLen == 2
MaxUserSkills == 2
MaxJobSkills == 3

-----------------------------------------------------------------------------
(* JavaScript values and string methods *)

\* null / undefined of an optional string column, and of a list of strings
NULL == <<"null">>
NullList == <<NULL>>

\* an optional number is the set of its values: {} is null
NoNumber == {}

Chars == {"a", "A", "b"}

LowerChar(c) == IF c = "A" THEN "a" ELSE c

\* String.prototype.toLowerCase
ToLowerCase(s) == [i \in 1..Len(s) |-> LowerChar(s[i])]

\* String.prototype.includes: needle occurs at some offset of hay
Includes(hay, needle) ==
    \E i \in 0..(Len(hay) - Len(needle)) :
        SubSeq(hay, i + 1, i + Len(needle)) = needle

\* list.map((s) => s.toLowerCase())
MapLower(list) == [i \in 1..Len(list) |-> ToLowerCase(list[i])]

\* Array.prototype.filter
RECURSIVE Filter(_, _)
Filter(list, keep) ==
    IF list = <<>> THEN <<>>
    ELSE (IF keep[Head(list)] THEN <<Head(list)>> ELSE <<>>)
         \o Filter(Tail(list), keep)

\* Math.floor in the place of Math.round
MathFloor(q) == q.num \div q.den

\* Math.round of the non-negative fraction q.num / q.den
MathRound(q) == (2 * q.num + q.den) \div (2 * q.den)

Frac(n, d) == [num |-> n, den |-> d]

\* q + m / t
AddRatio(q, m, t) == Frac(q.num * t + m * q.den, q.den * t)

\* q + k
AddInt(q, k) == Frac(q.num + k * q.den, q.den)

\* x || dflt for an optional number: null and 0 are falsy
OrDefault(x, dflt) ==
    IF x = NoNumber \/ x = {0} THEN dflt ELSE CHOOSE n \in x : TRUE

Min(a, b) == IF a < b THEN a ELSE b

-----------------------------------------------------------------------------
(* Skill matching, shared by every call site *)

\* userSkills.some((userSkill) => userSkill.includes(skill)): one direction only
SkillMatchesOneWay(userSkills, skill) ==
    \E i \in 1..Len(userSkills) : Includes(userSkills[i], skill)

\* userSkills.some((userSkill) => userSkill.includes(skill) || skill.includes(userSkill))
SkillMatches(userSkills, skill) ==
    \E i \in 1..Len(userSkills) :
        Includes(userSkills[i], skill) \/ Includes(skill, userSkills[i])

\* the candidate's skills that occur in the job, instead of the job's skills
MatchingSkillsOfUser(userSkills, jobSkills) ==
    Filter(userSkills, [s \in {userSkills[i] : i \in 1..Len(userSkills)} |->
                           SkillMatches(jobSkills, s)])

\* jobSkills.filter((skill) => userSkills.some(...))
MatchingSkills(userSkills, jobSkills) ==
    Filter(jobSkills, [s \in {jobSkills[i] : i \in 1..Len(jobSkills)} |->
                          SkillMatches(userSkills, s)])

\* full marks for a job that requires no skill
SkillRatioScoreFullOnEmpty(matchingSkills, jobSkills) ==
    IF Len(jobSkills) > 0
    THEN (2 * Len(matchingSkills) * 100 + Len(jobSkills)) \div (2 * Len(jobSkills))
    ELSE 100

\* jobSkills.length > 0 ? Math.round((matching.length / jobSkills.length) * 100) : 0
SkillRatioScore(matchingSkills, jobSkills) ==
    IF Len(jobSkills) > 0
    THEN MathRound(Frac(Len(matchingSkills) * 100, Len(jobSkills)))
    ELSE 0

-----------------------------------------------------------------------------
(* The four-component scorer of GET /api/jobs/recommendations/personalized *)

\* receiver.toLowerCase().includes(arg.toLowerCase()): a method call on a
\* null receiver raises TypeError
LowerIncludes(receiver, arg) ==
    IF receiver = NULL THEN "throw"
    ELSE IF Includes(ToLowerCase(receiver), ToLowerCase(arg)) THEN "true"
    ELSE "false"

\* job.location.toLowerCase() without the optional chain
LowerIncludesNoOptChain(receiver, arg) ==
    IF receiver = NULL THEN "throw"
    ELSE IF Includes(ToLowerCase(receiver), ToLowerCase(arg)) THEN "true"
    ELSE "false"

\* receiver?.toLowerCase().includes(arg.toLowerCase()): the optional chain
\* short-circuits to undefined on a null receiver
OptLowerIncludes(receiver, arg) ==
    IF receiver = NULL THEN "undefined"
    ELSE IF Includes(ToLowerCase(receiver), ToLowerCase(arg)) THEN "true"
    ELSE "false"

\* Array.prototype.some over the callback results, in order: the first truthy
\* result ends it with true, a raising callback before that raises
RECURSIVE SomeOf(_)
SomeOf(results) ==
    IF results = <<>> THEN "false"
    ELSE IF Head(results) = "throw" THEN "throw"
    ELSE IF Head(results) = "true" THEN "true"
    ELSE SomeOf(Tail(results))

\* prefs.desiredRoles?.some((role) => job.title.toLowerCase().includes(role.toLowerCase()))
RoleMatches(p, j) ==
    IF p.desiredRoles = NullList THEN "undefined"
    ELSE SomeOf([i \in 1..Len(p.desiredRoles) |->
                    LowerIncludes(j.title, p.desiredRoles[i])])

\* prefs.desiredLocations?.some((loc) => job.location?.toLowerCase().includes(loc.toLowerCase()))
LocationMatches(p, j) ==
    IF p.desiredLocations = NullList THEN "undefined"
    ELSE SomeOf([i \in 1..Len(p.desiredLocations) |->
                    OptLowerIncludes(j.location, p.desiredLocations[i])])

\* job.remoteType === prefs.remotePreference without the truthiness guard
RemoteMatchesNoGuard(p, j) == j.remoteType = p.remotePreference

\* prefs.remotePreference && job.remoteType === prefs.remotePreference
RemoteMatches(p, j) ==
    /\ p.remotePreference # NULL
    /\ j.remoteType = p.remotePreference

\* the skill ratio scaled by 100, as at the other call sites
SkillStep100(s, matchingSkills, jobSkills) ==
    IF Len(jobSkills) > 0
    THEN [s EXCEPT
            !.score = AddRatio(s.score, Len(matchingSkills) * 100, Len(jobSkills)),
            !.reasons =
                IF Len(matchingSkills) > 0
                THEN Append(s.reasons, ToString(Len(matchingSkills)) \o " skill matches")
                ELSE s.reasons]
    ELSE s

\* Skill match (up to 50 points)
SkillStep(s, matchingSkills, jobSkills) ==
    IF Len(jobSkills) > 0
    THEN [s EXCEPT
            !.score = AddRatio(s.score, Len(matchingSkills) * 50, Len(jobSkills)),
            !.reasons =
                IF Len(matchingSkills) > 0
                THEN Append(s.reasons, ToString(Len(matchingSkills)) \o " skill matches")
                ELSE s.reasons]
    ELSE s

\* Role match (up to 20 points)
RoleStep(s, p, j) ==
    IF s.threw THEN s
    ELSE IF RoleMatches(p, j) = "throw" THEN [s EXCEPT !.threw = TRUE]
    ELSE IF RoleMatches(p, j) = "true"
    THEN [s EXCEPT !.score = AddInt(s.score, 20),
                   !.reasons = Append(s.reasons, "Matches desired role")]
    ELSE s

\* reasons.unshift in the place of reasons.push
LocationStepUnshift(s, p, j) ==
    IF s.threw THEN s
    ELSE IF LocationMatches(p, j) = "throw" THEN [s EXCEPT !.threw = TRUE]
    ELSE IF LocationMatches(p, j) = "true"
    THEN [s EXCEPT !.score = AddInt(s.score, 15),
                   !.reasons = <<"Preferred location">> \o s.reasons]
    ELSE s

\* Location match (up to 15 points)
LocationStep(s, p, j) ==
    IF s.threw THEN s
    ELSE IF LocationMatches(p, j) = "throw" THEN [s EXCEPT !.threw = TRUE]
    ELSE IF LocationMatches(p, j) = "true"
    THEN [s EXCEPT !.score = AddInt(s.score, 15),
                   !.reasons = Append(s.reasons, "Preferred location")]
    ELSE s

\* Remote preference (up to 15 points)
RemoteStep(s, p, j) ==
    IF s.threw THEN s
    ELSE IF RemoteMatches(p, j)
    THEN [s EXCEPT !.score = AddInt(s.score, 15),
                   !.reasons = Append(s.reasons, "Matches work preference")]
    ELSE s

\* the callback of jobs.map(...): one scored job
ScoreJob(userSkills, p, j) ==
    LET jobSkills == MapLower(j.skillsRequired)
        matchingSkills == MatchingSkills(userSkills, jobSkills)
        s0 == [score |-> Frac(0, 1), reasons |-> <<>>, threw |-> FALSE]
        s1 == SkillStep(s0, matchingSkills, jobSkills)
        s2 == RoleStep(s1, p, j)
        s3 == LocationStep(s2, p, j)
        s4 == RemoteStep(s3, p, j)
    IN  [matchScore |-> MathRound(s4.score),
         matchReasons |-> s4.reasons,
         matchingSkills |-> matchingSkills,
         threw |-> s4.threw]

-----------------------------------------------------------------------------
(* Stored data the handlers are run on *)

Strings == UNION {[1..n -> Chars] : n \in 0..MaxStrLen}

\* body('name').trim().notEmpty(): a stored skill name is never empty
NonEmptyStrings == Strings \ {<<>>}

SeqsUpTo(S, n) == UNION {[1..k -> S] : k \in 0..n}

\* an enumerated string is kept as one token
RemoteTypes == {<<"remote">>, <<"onsite">>, <<"hybrid">>}

JobId == "job1"

BaseJob ==
    [title |-> <<"A", "b">>, location |-> <<"b">>, remoteType |-> <<"remote">>,
     skillsRequired |-> <<>>, isActive |-> TRUE]

BasePrefs ==
    [desiredRoles |-> << <<"a">> >>, desiredLocations |-> <<>>,
     remotePreference |-> NULL, minMatchScore |-> {50}]

Input(sk, p, j) == [skills |-> sk, prefs |-> p, job |-> j]

\* one candidate skill against one required skill, every string
SkillStringInputs ==
    {Input(sk, BasePrefs, [BaseJob EXCEPT !.skillsRequired = rs]) :
        sk \in SeqsUpTo(NonEmptyStrings, 1), rs \in SeqsUpTo(Strings, 1)}

\* lists of skills, with duplicates
SkillListInputs ==
    {Input(sk, BasePrefs, [BaseJob EXCEPT !.skillsRequired = rs]) :
        sk \in SeqsUpTo({<<"a">>, <<"b">>}, MaxUserSkills),
        rs \in SeqsUpTo({<<"A">>, <<"b", "b">>}, MaxJobSkills)}

SkillCases ==
    { <<sk, rs>> : sk \in {<<>>, << <<"a">> >>},
                   rs \in {<<>>, << <<"A">> >>, << <<"a">>, <<"b">> >>} }

RoleCases == {NullList, <<>>, << <<"a">> >>, << <<"a", "a">>, <<"b", "a">> >>}

LocationCases == {NullList, <<>>, << <<"A">> >>, << <<"a">>, <<"b">> >>}

\* the four components together
JointInputs ==
    {Input(c[1],
           [desiredRoles |-> dr, desiredLocations |-> dl,
            remotePreference |-> rp, minMatchScore |-> {50}],
           [BaseJob EXCEPT !.skillsRequired = c[2], !.location = loc,
                           !.remoteType = rt]) :
        c \in {x \in SkillCases : Len(x[2]) # 2},
        dr \in RoleCases \ {NullList}, dl \in LocationCases \ {NullList},
        loc \in {NULL, <<"b">>},
        rp \in {NULL, <<"remote">>, <<"hybrid">>}, rt \in RemoteTypes \cup {NULL}}

\* scores against every kind of threshold
ThresholdInputs ==
    {Input(c[1],
           [desiredRoles |-> dr, desiredLocations |-> dl,
            remotePreference |-> rp, minMatchScore |-> m],
           [BaseJob EXCEPT !.skillsRequired = c[2]]) :
        c \in SkillCases, dr \in RoleCases, dl \in LocationCases \ {<<>>},
        rp \in {NULL, <<"remote">>},
        m \in {NoNumber, {0}, {50}, {70}, {120}}}

\* desired roles against every title, desired locations against every location
TextInputs ==
    {Input(<<>>, [BasePrefs EXCEPT !.desiredRoles = dr], [BaseJob EXCEPT !.title = t]) :
        dr \in SeqsUpTo({<<>>, <<"a">>, <<"A", "b">>, <<"b", "a">>}, 1),
        t \in NonEmptyStrings}
    \cup
    {Input(<<>>,
           [BasePrefs EXCEPT !.desiredLocations = dl],
           [BaseJob EXCEPT !.location = loc]) :
        dl \in SeqsUpTo({<<>>, <<"a">>, <<"A", "b">>, <<"b", "a">>}, 1),
        loc \in Strings \cup {NULL}}

\* a job that is no longer active
InactiveInputs ==
    {Input(c[1], BasePrefs, [BaseJob EXCEPT !.skillsRequired = c[2], !.isActive = FALSE]) :
        c \in SkillCases}

Inputs ==
    SkillStringInputs \cup SkillListInputs \cup JointInputs
        \cup ThresholdInputs \cup TextInputs \cup InactiveInputs

\* POST /api/auth/register creates the subscription row
AutoAppliesLimit == 5

NoResponse ==
    [op |-> "none", status |-> 0, scored |-> <<>>, jobs |-> <<>>,
     aiScore |-> NoNumber, matchScore |-> NoNumber, isRecommended |-> FALSE,
     remainingAutoApplies |-> NoNumber, request |-> <<>>, message |-> ""]

\* the subscription row created with the user
FreeSubscription ==
    [tier |-> "FREE", autoAppliesUsed |-> 0, autoAppliesLimit |-> AutoAppliesLimit,
     status |-> "active", stripeSubscriptionId |-> NULL]

UserIds == {"u1", "u2", "u3"}

\* the accounts in the users table: a user, an admin and a super admin, with
\* the normalised e-mail address each registered with
SeededUsers ==
    [u \in UserIds |->
        [email |-> CASE u = "u1" -> <<"a">> [] u = "u2" -> <<"b">> [] OTHER -> <<"a", "b">>,
         role |-> CASE u = "u1" -> "USER" [] u = "u2" -> "ADMIN" [] OTHER -> "SUPER_ADMIN",
         isActive |-> TRUE]]

MaxTime == 2

LimitedUsers == {"u1", "u2"}

\* new Map(): no entry for any user, and no request passed on yet
NoRequests == [u \in LimitedUsers |-> <<>>]

NoPasses == [u \in LimitedUsers |-> [t \in 0..MaxTime |-> 0]]

\* a limiter nobody has sent a request through
LimiterAtRest ==
    /\ maxRequests = 1
    /\ windowMs = 0
    /\ requests = NoRequests
    /\ now = 0
    /\ passes = NoPasses

\* nobody has logged in or asked for a password reset yet
AuthAtRest ==
    /\ users = SeededUsers
    /\ accessTokens = {}
    /\ refreshTokens = {}
    /\ issued = 0
    /\ revokedTokens = {}
    /\ outbox = {}

\* no POST /api/applications request in progress
Idle == [pc |-> "idle", jobId |-> "none", isAutoApply |-> FALSE]

MaxClients == 2

Clients == 1..MaxClients

\* nothing requested of the billing and application routes yet
BillingAtRest ==
    /\ notifications = <<>>
    /\ calls = [c \in Clients |-> Idle]
    /\ served = 0
    /\ month = 0
    /\ uniqueIndex = FALSE
    /\ endpointSecret = TRUE
    /\ succeeded = {}
    /\ late = {}
    /\ AuthAtRest

Init ==
    /\ \E in \in Inputs :
          /\ skills = in.skills
          /\ prefs = in.prefs
          /\ job = in.job
    /\ subscription = FreeSubscription
    /\ applications = <<>>
    /\ totalApplications = 0
    /\ activityLog = <<>>
    /\ res = NoResponse
    /\ BillingAtRest
    /\ LimiterAtRest

-----------------------------------------------------------------------------
(* GET /api/jobs/recommendations/personalized *)

\* user.profile.skills.map((s) => s.name.toLowerCase())
UserSkills == MapLower(skills)

\* skillsRequired: { hasSome: values }: some element equal to some value
HasSome(list, values) ==
    \E i \in 1..Len(list), k \in 1..Len(values) : list[i] = values[k]

\* { contains: value, mode: 'insensitive' } on a nullable column
ContainsInsensitive(column, value) ==
    /\ column # NULL
    /\ Includes(ToLowerCase(column), ToLowerCase(value))

\* the where clause of the recommendation query; an empty OR selects nothing
RecommendationWhere(userSkills, p, j, appliedJobIds) ==
    /\ j.isActive
    /\ \/ Len(userSkills) > 0 /\ HasSome(j.skillsRequired, userSkills)
       \/ /\ p.desiredRoles # NullList
          /\ \E i \in 1..Len(p.desiredRoles) :
                ContainsInsensitive(j.title, p.desiredRoles[i])
       \/ /\ p.desiredLocations # NullList
          /\ \E i \in 1..Len(p.desiredLocations) :
                ContainsInsensitive(j.location, p.desiredLocations[i])
    /\ JobId \notin appliedJobIds

\* .sort((a, b) => b.matchScore - a.matchScore): stable, descending
RECURSIVE InsertByScore(_, _)
InsertByScore(sorted, e) ==
    IF sorted = <<>> THEN <<e>>
    ELSE IF Head(sorted).matchScore >= e.matchScore
         THEN <<Head(sorted)>> \o InsertByScore(Tail(sorted), e)
         ELSE <<e>> \o sorted

RECURSIVE SortByScore(_)
SortByScore(list) ==
    IF list = <<>> THEN <<>>
    ELSE InsertByScore(SortByScore(SubSeq(list, 1, Len(list) - 1)), list[Len(list)])

\* .slice(0, limit) for limit >= 0
Slice(list, limit) == SubSeq(list, 1, Min(limit, Len(list)))

\* .filter((job) => job.matchScore >= minMatchScore)
FilterByMinScore(list, minMatchScore) ==
    Filter(list, [e \in {list[i] : i \in 1..Len(list)} |->
                     e.matchScore >= minMatchScore])

\* const minMatchScore = prefs.minMatchScore || 50
MinMatchScore(p) == OrDefault(p.minMatchScore, 50)

\* the limit query parameter as a client sends it: absent or positive
LimitParams == {NoNumber, {1}, {2}}

GetRecommendations ==
    \E limitParam \in LimitParams :
        LET limit == OrDefault(limitParam, 10)
            appliedJobIds == {applications[i].jobId : i \in 1..Len(applications)}
            found == IF RecommendationWhere(UserSkills, prefs, job, appliedJobIds)
                     THEN <<job>> ELSE <<>>
            jobs == Slice(found, limit * 2)
            jobsWithScores == [i \in 1..Len(jobs) |-> ScoreJob(UserSkills, prefs, jobs[i])]
            raised == \E i \in 1..Len(jobs) : jobsWithScores[i].threw
            filteredJobs ==
                Slice(SortByScore(FilterByMinScore(jobsWithScores, MinMatchScore(prefs))),
                      limit)
        IN  /\ res' = IF raised
                      THEN [NoResponse EXCEPT !.op = "recommendations", !.status = 500]
                      ELSE [NoResponse EXCEPT !.op = "recommendations", !.status = 200,
                                              !.scored = jobsWithScores,
                                              !.jobs = filteredJobs]
            /\ UNCHANGED <<db, aside>>

-----------------------------------------------------------------------------
(* GET /api/jobs *)

JobIds == {JobId, "missing"}

\* the skill-ratio scorer of the listing, the detail and the application
RatioEntry(userSkills, j, reasons) ==
    LET jobSkills == MapLower(j.skillsRequired)
        matchingSkills == MatchingSkills(userSkills, jobSkills)
    IN  [matchScore |-> SkillRatioScore(matchingSkills, jobSkills),
         matchReasons |-> reasons,
         matchingSkills |-> matchingSkills,
         threw |-> FALSE]

\* where = { isActive: true }, narrowed by the remote query parameter
ListingWhere(j, remote) ==
    /\ j.isActive
    /\ remote # NULL => j.remoteType = remote

\* skip = (page - 1) * limit, take = limit
Page(list, page, limit) ==
    SubSeq(list, (page - 1) * limit + 1, Min(page * limit, Len(list)))

GetJobs ==
    \E auth \in BOOLEAN, remote \in {NULL, <<"onsite">>}, sortByMatch \in BOOLEAN :
        LET page == OrDefault(NoNumber, 1)
            limit == OrDefault(NoNumber, 20)
            found == IF ListingWhere(job, remote) THEN <<job>> ELSE <<>>
            jobs == Page(found, page, limit)
            jobsWithMatchScore ==
                [i \in 1..Len(jobs) |-> RatioEntry(UserSkills, jobs[i], <<>>)]
        IN  /\ res' = [NoResponse EXCEPT
                          !.op = "list", !.status = 200,
                          !.jobs = [i \in 1..Len(jobs) |-> JobId],
                          !.scored = IF ~auth THEN <<>>
                                     ELSE IF sortByMatch
                                     THEN SortByScore(jobsWithMatchScore)
                                     ELSE jobsWithMatchScore]
            /\ UNCHANGED <<db, aside>>

-----------------------------------------------------------------------------
(* GET /api/jobs/:id *)

\* matchReasons of the job detail, pushed in this order
DetailReasons(matchingSkills, p, j) ==
    (IF Len(matchingSkills) > 0
     THEN <<"You have " \o ToString(Len(matchingSkills)) \o " matching skills">>
     ELSE <<>>)
    \o (IF RoleMatches(p, j) = "true" THEN <<"Matches your desired role">> ELSE <<>>)
    \o (IF LocationMatches(p, j) = "true"
        THEN <<"Matches your preferred location">> ELSE <<>>)
    \o (IF RemoteMatches(p, j) THEN <<"Matches your work preference">> ELSE <<>>)

DetailRaises(p, j) ==
    RoleMatches(p, j) = "throw"
        \/ (RoleMatches(p, j) # "throw" /\ LocationMatches(p, j) = "throw")

\* a detail handler that records the view in the activity log
GetJobByIdLogged ==
    \E id \in JobIds, auth \in BOOLEAN :
        /\ res' =
            IF id # JobId
            THEN [NoResponse EXCEPT !.op = "detail", !.status = 404]
            ELSE IF ~auth
            THEN [NoResponse EXCEPT !.op = "detail", !.status = 200,
                                    !.jobs = <<JobId>>]
            ELSE IF DetailRaises(prefs, job)
            THEN [NoResponse EXCEPT !.op = "detail", !.status = 500]
            ELSE LET e == RatioEntry(UserSkills, job, <<>>)
                 IN  [NoResponse EXCEPT
                         !.op = "detail", !.status = 200, !.jobs = <<JobId>>,
                         !.scored = <<[e EXCEPT !.matchReasons =
                                          DetailReasons(e.matchingSkills, prefs, job)]>>]
        /\ activityLog' = IF id = JobId /\ auth
                          THEN Append(activityLog, "job_view") ELSE activityLog
        /\ UNCHANGED <<skills, prefs, job, subscription, applications,
                       totalApplications, aside>>

GetJobById ==
    \E id \in JobIds, auth \in BOOLEAN :
        /\ res' =
            IF id # JobId
            THEN [NoResponse EXCEPT !.op = "detail", !.status = 404]
            ELSE IF ~auth
            THEN [NoResponse EXCEPT !.op = "detail", !.status = 200,
                                    !.jobs = <<JobId>>]
            ELSE IF DetailRaises(prefs, job)
            THEN [NoResponse EXCEPT !.op = "detail", !.status = 500]
            ELSE LET e == RatioEntry(UserSkills, job, <<>>)
                 IN  [NoResponse EXCEPT
                         !.op = "detail", !.status = 200, !.jobs = <<JobId>>,
                         !.scored = <<[e EXCEPT !.matchReasons =
                                          DetailReasons(e.matchingSkills, prefs, job)]>>]
        /\ UNCHANGED <<db, aside>>

-----------------------------------------------------------------------------
(* POST /api/ai/match-job *)

\* overallMatchScore of the parsed completion; none when no API key is set,
\* the call fails or the completion is empty
AiScores == {NoNumber, {0}, {80}}

\* isRecommended: finalMatchScore >= 50
IsRecommended(finalMatchScore) == finalMatchScore >= 50

PostMatchJob ==
    \E id \in JobIds, ai \in AiScores :
        /\ res' =
            IF id # JobId
            THEN [NoResponse EXCEPT !.op = "match-job", !.status = 404]
            ELSE LET e == RatioEntry(UserSkills, job, <<>>)
                     \* aiAnalysis?.overallMatchScore || skillScore
                     finalMatchScore == OrDefault(ai, e.matchScore)
                 IN  [NoResponse EXCEPT
                         !.op = "match-job", !.status = 200, !.jobs = <<JobId>>,
                         !.scored = <<e>>, !.aiScore = ai,
                         !.matchScore = {finalMatchScore},
                         !.isRecommended = IsRecommended(finalMatchScore)]
        /\ UNCHANGED <<db, aside>>

-----------------------------------------------------------------------------
(* POST /api/applications *)

ApplicationReasons(matchingSkills) ==
    IF Len(matchingSkills) > 0
    THEN <<ToString(Len(matchingSkills)) \o " matching skills">>
    ELSE <<>>

PostApplication ==
    \E id \in JobIds, isAutoApply \in BOOLEAN :
        LET existing == \E i \in 1..Len(applications) : applications[i].jobId = id
            limitReached ==
                /\ isAutoApply
                /\ subscription.tier = "FREE"
                /\ subscription.autoAppliesUsed >= subscription.autoAppliesLimit
            e0 == RatioEntry(UserSkills, job, <<>>)
            e == [e0 EXCEPT !.matchReasons = ApplicationReasons(e0.matchingSkills)]
        IN  IF id # JobId
            THEN /\ res' = [NoResponse EXCEPT !.op = "apply", !.status = 404]
                 /\ UNCHANGED <<db, aside>>
            ELSE IF existing
            THEN /\ res' = [NoResponse EXCEPT !.op = "apply", !.status = 409]
                 /\ UNCHANGED <<db, aside>>
            ELSE IF limitReached
            THEN /\ res' = [NoResponse EXCEPT !.op = "apply", !.status = 403]
                 /\ UNCHANGED <<db, aside>>
            ELSE /\ subscription' =
                        IF isAutoApply
                        THEN [subscription EXCEPT !.autoAppliesUsed = @ + 1]
                        ELSE subscription
                 /\ applications' =
                        Append(applications,
                               [jobId |-> id, matchScore |-> e.matchScore,
                                matchReasons |-> e.matchReasons,
                                isAutoApplied |-> isAutoApply, status |-> "PENDING",
                                createdAt |-> month])
                 /\ totalApplications' = totalApplications + 1
                 /\ activityLog' =
                        Append(activityLog,
                               IF isAutoApply THEN "auto_apply" ELSE "manual_apply")
                 /\ res' = [NoResponse EXCEPT !.op = "apply", !.status = 201,
                                              !.jobs = <<JobId>>, !.scored = <<e>>]
                 /\ UNCHANGED <<skills, prefs, job, aside>>

-----------------------------------------------------------------------------

Next ==
    \/ GetRecommendations
    \/ GetJobs
    \/ GetJobById
    \/ PostMatchJob
    \/ PostApplication

Spec == Init /\ [][Next]_vars

-----------------------------------------------------------------------------
(* POST /api/applications request by request: every await of the handler is
   a step, so that two requests of the user interleave.  Both job ids carry
   the stored job row. *)

MaxRequests == 3

MaxMonth == 1

ExistingJobIds == {JobId, "job2"}

ApplyJobIds == ExistingJobIds \cup {"missing"}

\* autoAppliesLimit written by the webhook: -1 for a paid plan, 5 after the
\* downgrade
UnlimitedAutoApplies == -1

DowngradedAutoAppliesLimit == 5

\* prisma.application.findFirst({ where: { userId, jobId } })
FindApplication(id) == {i \in 1..Len(applications) : applications[i].jobId = id}

\* the row written by prisma.application.create
NewApplication(id, isAutoApply) ==
    LET e == RatioEntry(UserSkills, job, <<>>)
    IN  [jobId |-> id, matchScore |-> e.matchScore,
         matchReasons |-> ApplicationReasons(e.matchingSkills),
         isAutoApplied |-> isAutoApply, status |-> "PENDING", createdAt |-> month]

\* the store after n auto-applies of the first month to other jobs
AfterAutoApplies(n) ==
    /\ subscription = [FreeSubscription EXCEPT !.autoAppliesUsed = n]
    /\ applications = [i \in 1..n |-> NewApplication("job" \o ToString(i + 2), TRUE)]
    /\ totalApplications = n
    /\ activityLog = [i \in 1..n |-> "auto_apply"]

InitBilling ==
    /\ skills = <<>> /\ prefs = BasePrefs /\ job = BaseJob
    /\ month = 0
    /\ \E n \in {0, AutoAppliesLimit - 1} : AfterAutoApplies(n)
    /\ res = NoResponse
    /\ notifications = <<>>
    /\ calls = [c \in Clients |-> Idle]
    /\ served = 0
    /\ uniqueIndex \in BOOLEAN
    /\ endpointSecret = TRUE
    /\ succeeded = {}
    /\ late = {}
    /\ AuthAtRest
    /\ LimiterAtRest

\* the response of a POST /api/applications request leaves the server
Answer(id, status) ==
    /\ res' = IF status = 201
              THEN [NoResponse EXCEPT !.op = "apply", !.status = 201, !.jobs = <<id>>]
              ELSE [NoResponse EXCEPT !.op = "apply", !.status = status]
    /\ succeeded' = IF status = 201 THEN succeeded \cup {id} ELSE succeeded
    /\ late' = IF id \in succeeded THEN late \cup {<<id, status>>} ELSE late

\* prisma.job.findUnique; throws 404 for an unknown job
ApplyFindJob(c) ==
    /\ calls[c].pc = "idle"
    /\ served < MaxRequests
    /\ served' = served + 1
    /\ \E id \in ApplyJobIds, isAutoApply \in BOOLEAN :
          IF id \in ExistingJobIds
          THEN /\ calls' = [calls EXCEPT ![c] = [pc |-> "findExisting", jobId |-> id,
                                                  isAutoApply |-> isAutoApply]]
               /\ UNCHANGED <<res, succeeded, late>>
          ELSE /\ Answer(id, 404)
               /\ UNCHANGED calls
    /\ UNCHANGED <<limiter, account, db, notifications, month, uniqueIndex, endpointSecret>>

\* prisma.application.findFirst; throws 409 when the user applied already
ApplyFindExisting(c) ==
    /\ calls[c].pc = "findExisting"
    /\ IF FindApplication(calls[c].jobId) # {}
       THEN /\ Answer(calls[c].jobId, 409)
            /\ calls' = [calls EXCEPT ![c] = Idle]
       ELSE /\ calls' = [calls EXCEPT ![c].pc =
                            IF calls[c].isAutoApply THEN "findSubscription" ELSE "create"]
            /\ UNCHANGED <<res, succeeded, late>>
    /\ UNCHANGED <<limiter, account, db, notifications, served, month, uniqueIndex, endpointSecret>>

\* prisma.subscription.findUnique; throws 403 for a FREE tier at its limit
ApplyCheckLimit(c) ==
    /\ calls[c].pc = "findSubscription"
    /\ IF subscription.tier = "FREE"
            /\ subscription.autoAppliesUsed >= subscription.autoAppliesLimit
       THEN /\ Answer(calls[c].jobId, 403)
            /\ calls' = [calls EXCEPT ![c] = Idle]
       ELSE /\ calls' = [calls EXCEPT ![c].pc = "increment"]
            /\ UNCHANGED <<res, succeeded, late>>
    /\ UNCHANGED <<limiter, account, db, notifications, served, month, uniqueIndex, endpointSecret>>

\* prisma.subscription.update({ data: { autoAppliesUsed: { increment: 1 } } })
ApplyIncrement(c) ==
    /\ calls[c].pc = "increment"
    /\ subscription' = [subscription EXCEPT !.autoAppliesUsed = @ + 1]
    /\ calls' = [calls EXCEPT ![c].pc = "create"]
    /\ UNCHANGED <<limiter, account, skills, prefs, job, applications, totalApplications, activityLog,
                   res, notifications, served, month, uniqueIndex, endpointSecret,
                   succeeded, late>>

\* prisma.application.create; a unique index makes it fail with P2002, which
\* errorHandler answers with 409
ApplyCreate(c) ==
    /\ calls[c].pc = "create"
    /\ IF uniqueIndex /\ FindApplication(calls[c].jobId) # {}
       THEN /\ Answer(calls[c].jobId, 409)
            /\ calls' = [calls EXCEPT ![c] = Idle]
            /\ UNCHANGED applications
       ELSE /\ applications' =
                  Append(applications, NewApplication(calls[c].jobId, calls[c].isAutoApply))
            /\ calls' = [calls EXCEPT ![c].pc = "created"]
            /\ UNCHANGED <<res, succeeded, late>>
    /\ UNCHANGED <<limiter, account, skills, prefs, job, subscription, totalApplications, activityLog,
                   notifications, served, month, uniqueIndex, endpointSecret>>

\* userAnalytics.update, activityLog.create, the confirmation mail and the
\* 201 response
ApplyRespond(c) ==
    /\ calls[c].pc = "created"
    /\ totalApplications' = totalApplications + 1
    /\ activityLog' = Append(activityLog,
                             IF calls[c].isAutoApply THEN "auto_apply" ELSE "manual_apply")
    /\ Answer(calls[c].jobId, 201)
    /\ calls' = [calls EXCEPT ![c] = Idle]
    /\ UNCHANGED <<limiter, account, skills, prefs, job, subscription, applications, notifications,
                   served, month, uniqueIndex, endpointSecret>>

\* DELETE /api/applications/:id keeps the row and marks it withdrawn
WithdrawApplication ==
    /\ served < MaxRequests
    /\ served' = served + 1
    /\ \E id \in ExistingJobIds :
          IF FindApplication(id) = {}
          THEN /\ res' = [NoResponse EXCEPT !.op = "withdraw", !.status = 404]
               /\ UNCHANGED applications
          ELSE /\ applications' =
                     [i \in 1..Len(applications) |->
                         IF i \in FindApplication(id)
                         THEN [applications[i] EXCEPT !.status = "WITHDRAWN"]
                         ELSE applications[i]]
               /\ res' = [NoResponse EXCEPT !.op = "withdraw", !.status = 200]
    /\ UNCHANGED <<limiter, account, skills, prefs, job, subscription, totalApplications, activityLog,
                   notifications, calls, month, uniqueIndex, endpointSecret,
                   succeeded, late>>

-----------------------------------------------------------------------------
(* GET /api/subscriptions/current *)

Max(a, b) == IF a > b THEN a ELSE b

\* prisma.application.count of the auto-applied rows created since the first
\* day of the current month
ApplicationsThisMonth ==
    Cardinality({i \in 1..Len(applications) :
                    applications[i].createdAt >= month /\ applications[i].isAutoApplied})

\* 'unlimited' for a paid tier is no number
RemainingAutoApplies ==
    IF subscription.tier = "FREE"
    THEN {Max(0, subscription.autoAppliesLimit - ApplicationsThisMonth)}
    ELSE NoNumber

GetCurrentSubscription ==
    /\ res' = [NoResponse EXCEPT !.op = "current", !.status = 200,
                                 !.remainingAutoApplies = RemainingAutoApplies]
    /\ UNCHANGED <<db, aside>>

\* the server clock passes the first day of the next month
NextMonth ==
    /\ month < MaxMonth
    /\ month' = month + 1
    /\ UNCHANGED <<limiter, account, db, res, notifications, calls, served, uniqueIndex,
                   endpointSecret, succeeded, late>>

-----------------------------------------------------------------------------
(* POST /api/webhooks/stripe *)

EventTypes ==
    {"checkout.session.completed", "invoice.payment_succeeded",
     "invoice.payment_failed", "customer.subscription.updated",
     "customer.subscription.deleted", "charge.refunded"}

StripeSubscriptionIds == {<<"sub_1">>, <<"sub_2">>}

\* sig, constructEvent's verdict, and the verified event
WebhookRequests ==
    [sig : BOOLEAN, verifies : BOOLEAN, type : EventTypes,
     subscription : StripeSubscriptionIds]

\* what the response records of the request: the header and the verdict
Presented(rq) == <<[sig |-> rq.sig, verifies |-> rq.verifies]>>

\* the try block before the switch: throws unless the signature header and
\* the endpoint secret are present and constructEvent accepts the payload
WebhookRejected(rq) == ~rq.sig \/ ~endpointSecret \/ ~rq.verifies

\* prisma.subscription.findFirst({ where: { stripeSubscriptionId } })
FoundByStripeId(rq) == subscription.stripeSubscriptionId = rq.subscription

\* handleCheckoutCompleted, for the plan PROFESSIONAL of the session metadata
HandleCheckoutCompleted(rq) ==
    /\ subscription' =
          [subscription EXCEPT !.tier = "PROFESSIONAL",
                               !.stripeSubscriptionId = rq.subscription,
                               !.status = "active",
                               !.autoAppliesLimit = UnlimitedAutoApplies]
    /\ activityLog' = Append(activityLog, "subscription_started")
    /\ UNCHANGED notifications

HandleInvoicePaymentSucceeded(rq) ==
    /\ subscription' = IF FoundByStripeId(rq)
                       THEN [subscription EXCEPT !.status = "active"]
                       ELSE subscription
    /\ UNCHANGED <<activityLog, notifications>>

HandleInvoicePaymentFailed(rq) ==
    IF FoundByStripeId(rq)
    THEN /\ subscription' = [subscription EXCEPT !.status = "past_due"]
         /\ notifications' = Append(notifications, "payment_failed")
         /\ UNCHANGED activityLog
    ELSE UNCHANGED <<subscription, activityLog, notifications>>

\* the Stripe status copied is "active" here
HandleSubscriptionUpdated(rq) ==
    /\ subscription' = IF FoundByStripeId(rq)
                       THEN [subscription EXCEPT !.status = "active"]
                       ELSE subscription
    /\ UNCHANGED <<activityLog, notifications>>

HandleSubscriptionDeleted(rq) ==
    IF FoundByStripeId(rq)
    THEN /\ subscription' =
               [subscription EXCEPT !.tier = "FREE", !.status = "cancelled",
                                    !.stripeSubscriptionId = NULL,
                                    !.autoAppliesLimit = DowngradedAutoAppliesLimit]
         /\ notifications' = Append(notifications, "subscription_cancelled")
         /\ activityLog' = Append(activityLog, "subscription_cancelled")
    ELSE UNCHANGED <<subscription, activityLog, notifications>>

\* the switch on event.type
HandleEvent(rq) ==
    CASE rq.type = "checkout.session.completed" -> HandleCheckoutCompleted(rq)
      [] rq.type = "invoice.payment_succeeded" -> HandleInvoicePaymentSucceeded(rq)
      [] rq.type = "invoice.payment_failed" -> HandleInvoicePaymentFailed(rq)
      [] rq.type = "customer.subscription.updated" -> HandleSubscriptionUpdated(rq)
      [] rq.type = "customer.subscription.deleted" -> HandleSubscriptionDeleted(rq)
      [] OTHER -> UNCHANGED <<subscription, activityLog, notifications>>

\* a webhook that handles the event before the signature is looked at
StripeWebhookUnverified ==
    /\ served < MaxRequests
    /\ served' = served + 1
    /\ \E rq \in WebhookRequests :
          /\ HandleEvent(rq)
          /\ res' = [NoResponse EXCEPT !.op = "webhook",
                                       !.status = IF WebhookRejected(rq) THEN 400 ELSE 200,
                                       !.request = Presented(rq)]
    /\ UNCHANGED <<limiter, account, skills, prefs, job, applications, totalApplications, calls, month,
                   uniqueIndex, endpointSecret, succeeded, late>>

StripeWebhook ==
    /\ served < MaxRequests
    /\ served' = served + 1
    /\ \E rq \in WebhookRequests :
          IF WebhookRejected(rq)
          THEN /\ res' = [NoResponse EXCEPT !.op = "webhook", !.status = 400,
                                            !.request = Presented(rq)]
               /\ UNCHANGED <<subscription, activityLog, notifications>>
          ELSE /\ HandleEvent(rq)
               /\ res' = [NoResponse EXCEPT !.op = "webhook", !.status = 200,
                                            !.request = Presented(rq)]
    /\ UNCHANGED <<limiter, account, skills, prefs, job, applications, totalApplications, calls, month,
                   uniqueIndex, endpointSecret, succeeded, late>>

NextBilling ==
    \/ \E c \in Clients : ApplyFindJob(c)
    \/ \E c \in Clients : ApplyFindExisting(c)
    \/ \E c \in Clients : ApplyCheckLimit(c)
    \/ \E c \in Clients : ApplyIncrement(c)
    \/ \E c \in Clients : ApplyCreate(c)
    \/ \E c \in Clients : ApplyRespond(c)
    \/ WithdrawApplication
    \/ GetCurrentSubscription
    \/ NextMonth
    \/ StripeWebhook

SpecBilling == InitBilling /\ [][NextBilling]_vars

\* webhook deliveries alone, with and without a configured endpoint secret
InitWebhook ==
    /\ skills = <<>> /\ prefs = BasePrefs /\ job = BaseJob
    /\ subscription = FreeSubscription
    /\ applications = <<>>
    /\ totalApplications = 0
    /\ activityLog = <<>>
    /\ res = NoResponse
    /\ notifications = <<>>
    /\ calls = [c \in Clients |-> Idle]
    /\ served = 0
    /\ month = 0
    /\ uniqueIndex = FALSE
    /\ endpointSecret \in BOOLEAN
    /\ succeeded = {}
    /\ late = {}
    /\ AuthAtRest
    /\ LimiterAtRest

NextWebhook ==
    \/ StripeWebhook
    \/ PostApplication
    \/ GetCurrentSubscription

SpecWebhook == InitWebhook /\ [][NextWebhook]_vars

-----------------------------------------------------------------------------
(* Accounts: tokens, password reset and roles *)

MaxTokens == 2

Roles == {"USER", "ADMIN", "SUPER_ADMIN"}

AdminRoles == {"ADMIN", "SUPER_ADMIN"}

\* isEmail(): the empty string is no address
IsEmail(s) == s # <<>>

\* normalizeEmail()
NormalizeEmail(s) == ToLowerCase(s)

\* prisma.user.findUnique({ where: { email } })
FindUserByEmail(email) == {u \in UserIds : users[u].email = email}

\* generateAccessToken: the payload signed with JWT_SECRET
AccessToken(u) == [userId |-> u, role |-> users[u].role]

\* generateRefreshToken: the payload signed with JWT_REFRESH_SECRET; the
\* serial stands for the issue time
RefreshToken(u) == [userId |-> u, tokenVersion |-> 0, serial |-> issued + 1]

\* generateTokenPair
GenerateTokenPair(u) ==
    /\ accessTokens' = accessTokens \cup {AccessToken(u)}
    /\ refreshTokens' = refreshTokens \cup {RefreshToken(u)}
    /\ issued' = issued + 1

\* a token no key of the server signed
Forged == [userId |-> "u3", role |-> "SUPER_ADMIN", tokenVersion |-> 0, serial |-> 0]

\* POST /api/auth/login
Login ==
    /\ \E email \in {<<"A">>, <<"b">>, <<"a", "b">>, <<"b", "b">>},
          passwordValid \in BOOLEAN :
          LET found == FindUserByEmail(NormalizeEmail(email))
          IN  IF found = {}
              THEN /\ res' = [NoResponse EXCEPT !.op = "login", !.status = 401]
                   /\ UNCHANGED <<accessTokens, refreshTokens, issued>>
              ELSE \E u \in found :
                      LET request == <<[userId |-> u, active |-> users[u].isActive,
                                        passwordValid |-> passwordValid]>>
                      IN  IF ~users[u].isActive \/ ~passwordValid
                          THEN /\ res' = [NoResponse EXCEPT !.op = "login", !.status = 401,
                                                            !.request = request]
                               /\ UNCHANGED <<accessTokens, refreshTokens, issued>>
                          ELSE /\ issued < MaxTokens
                               /\ GenerateTokenPair(u)
                               /\ res' = [NoResponse EXCEPT !.op = "login", !.status = 200,
                                                            !.request = request]
    /\ UNCHANGED <<limiter, db, billing, users, revokedTokens, outbox>>

\* POST /api/auth/refresh: verifyRefreshToken, then the user must exist and
\* be active
Refresh ==
    /\ \E token \in refreshTokens \cup {Forged}, expired \in BOOLEAN :
          LET request == <<[token |-> token, expired |-> expired,
                            revokedBefore |-> token \in revokedTokens,
                            active |-> users[token.userId].isActive]>>
          IN  IF token \notin refreshTokens \/ expired
                    \/ ~users[token.userId].isActive
              THEN /\ res' = [NoResponse EXCEPT !.op = "refresh", !.status = 401,
                                                !.request = request]
                   /\ UNCHANGED <<accessTokens, refreshTokens, issued>>
              ELSE /\ issued < MaxTokens
                   /\ GenerateTokenPair(token.userId)
                   /\ res' = [NoResponse EXCEPT !.op = "refresh", !.status = 200,
                                                !.request = request]
    /\ UNCHANGED <<limiter, db, billing, users, revokedTokens, outbox>>

\* revokeAllUserTokens: prisma.user.update with no data; the refresh tokens
\* of the user signed so far are noted as signed before the revocation
RevokeAllUserTokens ==
    \E u \in UserIds :
        /\ users' = [users EXCEPT ![u] = users[u]]
        /\ revokedTokens' = revokedTokens \cup {t \in refreshTokens : t.userId = u}
        /\ res' = [NoResponse EXCEPT !.op = "revoke", !.request = <<[userId |-> u]>>]
        /\ UNCHANGED <<limiter, db, billing, accessTokens, refreshTokens, issued, outbox>>

ResetMessage == "If an account exists, a reset email has been sent."

\* req.body.email: malformed, registered as written, registered in another
\* letter case, and unregistered
ResetAddresses == {<<>>, <<"a">>, <<"b">>, <<"A", "b">>, <<"b", "b">>, <<"A", "A">>}

\* a handler that tells the caller that the address is unknown
ForgotPasswordNotFound ==
    \E email \in ResetAddresses, delivered \in BOOLEAN :
        LET address == NormalizeEmail(email)
            found == FindUserByEmail(address)
            request == <<[email |-> email, registered |-> found # {},
                          delivered |-> delivered]>>
        IN  /\ res' =
                  IF ~IsEmail(email)
                  THEN [NoResponse EXCEPT !.op = "forgot-password", !.status = 400,
                                          !.message = "Validation failed",
                                          !.request = request]
                  ELSE IF found = {}
                  THEN [NoResponse EXCEPT !.op = "forgot-password", !.status = 404,
                                          !.message = "User not found",
                                          !.request = request]
                  ELSE [NoResponse EXCEPT !.op = "forgot-password", !.status = 200,
                                          !.message = ResetMessage,
                                          !.request = request]
            /\ outbox' = IF IsEmail(email) /\ found # {} /\ delivered
                         THEN outbox \cup {address} ELSE outbox
            /\ UNCHANGED <<limiter, db, billing, users, accessTokens, refreshTokens, issued,
                           revokedTokens>>

\* POST /api/auth/forgot-password; sendEmail answers false when the mail
\* cannot be delivered and the handler goes on
ForgotPassword ==
    \E email \in ResetAddresses, delivered \in BOOLEAN :
        LET address == NormalizeEmail(email)
            found == FindUserByEmail(address)
            request == <<[email |-> email, registered |-> found # {},
                          delivered |-> delivered]>>
        IN  /\ res' =
                  IF ~IsEmail(email)
                  THEN [NoResponse EXCEPT !.op = "forgot-password", !.status = 400,
                                          !.message = "Validation failed",
                                          !.request = request]
                  ELSE IF found = {}
                  THEN [NoResponse EXCEPT !.op = "forgot-password", !.status = 200,
                                          !.message = ResetMessage,
                                          !.request = request]
                  ELSE [NoResponse EXCEPT !.op = "forgot-password", !.status = 200,
                                          !.message = ResetMessage,
                                          !.request = request]
            /\ outbox' = IF IsEmail(email) /\ found # {} /\ delivered
                         THEN outbox \cup {address} ELSE outbox
            /\ UNCHANGED <<limiter, db, billing, users, accessTokens, refreshTokens, issued,
                           revokedTokens>>

\* an authenticate that does not look at isActive
AuthenticatedThoughInactive(token) == token \in accessTokens

\* authenticate: the token verifies and its user exists and is active;
\* req.user is the token's payload
Authenticated(token) == token \in accessTokens /\ users[token.userId].isActive

\* who sent the request, with the role stored for them at that moment
Issuer(token) ==
    <<[userId |-> token.userId, storedRole |-> users[token.userId].role,
       active |-> users[token.userId].isActive]>>

TargetIds == UserIds \cup {"nobody"}

\* PUT /api/admin/users/:id/role, behind authenticate, authorize('ADMIN',
\* 'SUPER_ADMIN') and authorize('SUPER_ADMIN')
PutUserRole ==
    /\ served < MaxRequests
    /\ served' = served + 1
    /\ \E token \in accessTokens \cup {Forged}, id \in TargetIds, role \in Roles :
        LET status == IF ~Authenticated(token) THEN 401
                      ELSE IF token.role \notin AdminRoles THEN 403
                      ELSE IF token.role # "SUPER_ADMIN" THEN 403
                      ELSE IF id = token.userId THEN 400
                      ELSE IF id \notin UserIds THEN 404
                      ELSE 200
        IN  /\ users' = IF status = 200 THEN [users EXCEPT ![id].role = role] ELSE users
            /\ res' = [NoResponse EXCEPT !.op = "put-role", !.status = status,
                                         !.request = Issuer(token)]
    /\ UNCHANGED <<limiter, db, notifications, calls, month, uniqueIndex, endpointSecret,
                   succeeded, late, accessTokens, refreshTokens, issued,
                   revokedTokens, outbox>>

\* PUT /api/users/:id, behind authenticate; role and isActive are optional
PutUser ==
    /\ served < MaxRequests
    /\ served' = served + 1
    /\ \E token \in accessTokens \cup {Forged}, id \in TargetIds,
       role \in {{}} \cup {{r} : r \in Roles}, isActive \in {{}, {TRUE}, {FALSE}} :
        LET status == IF ~Authenticated(token) THEN 401
                      ELSE IF token.userId # id /\ token.role \notin AdminRoles THEN 403
                      ELSE IF (role # {} \/ isActive # {}) /\ token.role \notin AdminRoles
                      THEN 403
                      ELSE IF id \notin UserIds THEN 404
                      ELSE 200
        IN  /\ users' =
                  IF status = 200
                  THEN [users EXCEPT
                           ![id].role = IF role = {} THEN @ ELSE CHOOSE r \in role : TRUE,
                           ![id].isActive = IF isActive = {} THEN @
                                            ELSE CHOOSE a \in isActive : TRUE]
                  ELSE users
            /\ res' = [NoResponse EXCEPT !.op = "put-user", !.status = status,
                                         !.request = Issuer(token)]
    /\ UNCHANGED <<limiter, db, notifications, calls, month, uniqueIndex, endpointSecret,
                   succeeded, late, accessTokens, refreshTokens, issued,
                   revokedTokens, outbox>>

\* PUT /api/admin/users/:id/status, behind authenticate and
\* authorize('ADMIN', 'SUPER_ADMIN')
PutUserStatus ==
    /\ served < MaxRequests
    /\ served' = served + 1
    /\ \E token \in accessTokens \cup {Forged}, id \in TargetIds, isActive \in BOOLEAN :
        LET status == IF ~Authenticated(token) THEN 401
                      ELSE IF token.role \notin AdminRoles THEN 403
                      ELSE IF id = token.userId THEN 400
                      ELSE IF id \notin UserIds THEN 404
                      ELSE 200
        IN  /\ users' = IF status = 200 THEN [users EXCEPT ![id].isActive = isActive]
                        ELSE users
            /\ res' = [NoResponse EXCEPT !.op = "put-status", !.status = status,
                                         !.request = Issuer(token)]
    /\ UNCHANGED <<limiter, db, notifications, calls, month, uniqueIndex, endpointSecret,
                   succeeded, late, accessTokens, refreshTokens, issued,
                   revokedTokens, outbox>>

\* what the middleware is handed: the bearer token and whether it is past
\* its expiry
Bearer(token, expired) ==
    [userId |-> token.userId, genuine |-> token \in accessTokens,
     expired |-> expired, active |-> users[token.userId].isActive]

\* GET /api/auth/me, behind authenticate: verifyAccessToken throws for a
\* forged or expired token
GetMe ==
    \E token \in accessTokens \cup {Forged}, expired \in BOOLEAN :
        /\ res' = [NoResponse EXCEPT
                      !.op = "me",
                      !.status = IF expired \/ ~Authenticated(token) THEN 401 ELSE 200,
                      !.request = <<Bearer(token, expired)>>]
        /\ UNCHANGED <<db, aside>>

\* optionalAuth: next() is always called; req.user is attached for a token
\* that verifies and whose user exists and is active
OptionalAuth ==
    \E token \in accessTokens \cup {Forged}, expired \in BOOLEAN :
        /\ res' = [NoResponse EXCEPT
                      !.op = "optional-auth", !.status = 200,
                      !.request = <<Bearer(token, expired)>>,
                      !.jobs = IF ~expired /\ token \in accessTokens
                                    /\ users[token.userId].isActive
                               THEN <<token.userId>> ELSE <<>>]
        /\ UNCHANGED <<db, aside>>

InitAccounts ==
    /\ skills = <<>> /\ prefs = BasePrefs /\ job = BaseJob
    /\ subscription = FreeSubscription
    /\ applications = <<>>
    /\ totalApplications = 0
    /\ activityLog = <<>>
    /\ res = NoResponse
    /\ BillingAtRest
    /\ AuthAtRest
    /\ LimiterAtRest

NextAccounts ==
    \/ Login
    \/ Refresh
    \/ RevokeAllUserTokens
    \/ ForgotPassword

SpecAccounts == InitAccounts /\ [][NextAccounts]_vars

NextRoles ==
    \/ Login
    \/ PutUserRole
    \/ PutUser

SpecRoles == InitAccounts /\ [][NextRoles]_vars

-----------------------------------------------------------------------------
(* userRateLimit(maxRequests, windowMs) *)

MaxLimit == 2

MaxWindow == 1

\* req.user?.userId of a request
Requesters == LimitedUsers \cup {"anonymous"}

\* a limiter that lets one request more through
LimitReachedLate(entry) == entry.count > maxRequests

\* userRequests.count >= maxRequests
LimitReached(entry) == entry.count >= maxRequests

\* !userRequests || now > userRequests.resetTime
WindowOver(u) == requests[u] = <<>> \/ now > requests[u][1].resetTime

\* next()
PassOn(u) == passes' = [passes EXCEPT ![u][now] = @ + 1]

\* the middleware returned by userRateLimit, for one request
UserRateLimit ==
    \E u \in Requesters :
        LET request == <<[userId |-> u]>>
        IN  /\ IF u = "anonymous"
               THEN /\ res' = [NoResponse EXCEPT !.op = "rate-limit", !.status = 200,
                                                 !.request = request]
                    /\ UNCHANGED <<requests, passes>>
               ELSE IF WindowOver(u)
               THEN /\ requests' = [requests EXCEPT ![u] =
                                       <<[count |-> 1, resetTime |-> now + windowMs]>>]
                    /\ PassOn(u)
                    /\ res' = [NoResponse EXCEPT !.op = "rate-limit", !.status = 200,
                                                 !.request = request]
               ELSE IF LimitReached(requests[u][1])
               THEN /\ res' = [NoResponse EXCEPT !.op = "rate-limit", !.status = 429,
                                                 !.request = request]
                    /\ UNCHANGED <<requests, passes>>
               ELSE /\ requests' = [requests EXCEPT ![u][1].count = @ + 1]
                    /\ PassOn(u)
                    /\ res' = [NoResponse EXCEPT !.op = "rate-limit", !.status = 200,
                                                 !.request = request]
            /\ UNCHANGED <<db, billing, account, maxRequests, windowMs, now>>

\* Date.now() moves on by a millisecond
AdvanceClock ==
    /\ now < MaxTime
    /\ now' = now + 1
    /\ UNCHANGED <<db, res, billing, account, maxRequests, windowMs, requests, passes>>

InitLimiter ==
    /\ skills = <<>> /\ prefs = BasePrefs /\ job = BaseJob
    /\ subscription = FreeSubscription
    /\ applications = <<>>
    /\ totalApplications = 0
    /\ activityLog = <<>>
    /\ res = NoResponse
    /\ BillingAtRest
    /\ maxRequests \in 1..MaxLimit
    /\ windowMs \in 0..MaxWindow
    /\ requests = NoRequests
    /\ now = 0
    /\ passes = NoPasses

NextLimiter ==
    \/ UserRateLimit
    \/ AdvanceClock

SpecLimiter == InitLimiter /\ [][NextLimiter]_vars

\* accounts that are deactivated and reactivated while their tokens are used
NextActive ==
    \/ Login
    \/ Refresh
    \/ PutUserStatus
    \/ GetMe
    \/ OptionalAuth

SpecActive == InitAccounts /\ [][NextActive]_vars

-----------------------------------------------------------------------------
(* The specification's reading of the scorer, stated on the stored data *)

Elems(list) == {list[i] : i \in 1..Len(list)}

\* two characters that differ at most in letter case
SameLetter(x, y) == x = y \/ {x, y} = {"a", "A"}

\* needle is a case-insensitive substring of hay
CISubstring(needle, hay) ==
    \E off \in 0..(Len(hay) - Len(needle)) :
        \A k \in 1..Len(needle) : SameLetter(needle[k], hay[off + k])

\* a required skill is matched by some candidate skill, in either direction
ClaimSkillMatched(j) ==
    \E k \in 1..Len(skills) : CISubstring(j, skills[k]) \/ CISubstring(skills[k], j)

ClaimT == Len(job.skillsRequired)

ClaimM == Cardinality({i \in 1..ClaimT : ClaimSkillMatched(job.skillsRequired[i])})

ClaimRole ==
    /\ prefs.desiredRoles # NullList
    /\ \E i \in 1..Len(prefs.desiredRoles) : CISubstring(prefs.desiredRoles[i], job.title)

ClaimLocation ==
    /\ prefs.desiredLocations # NullList
    /\ job.location # NULL
    /\ \E i \in 1..Len(prefs.desiredLocations) :
          CISubstring(prefs.desiredLocations[i], job.location)

ClaimRemote ==
    /\ prefs.remotePreference # NULL
    /\ prefs.remotePreference = job.remoteType

\* R + L + W
ClaimFixedPoints ==
    (IF ClaimRole THEN 20 ELSE 0) + (IF ClaimLocation THEN 15 ELSE 0)
        + (IF ClaimRemote THEN 15 ELSE 0)

\* n is an integer nearest to 50 * M / T + R + L + W (to R + L + W when T = 0)
NearestToClaimedSum(n) ==
    IF ClaimT = 0 THEN n = ClaimFixedPoints
    ELSE LET twice == 2 * ClaimT * n - (100 * ClaimM + 2 * ClaimT * ClaimFixedPoints)
         IN  -ClaimT <= twice /\ twice <= ClaimT

\* the jobs scored by the last recommendations response
Recommended == IF res.op = "recommendations" THEN res.scored ELSE <<>>

\* the handlers that compute a match score
ScoringOps == {"recommendations", "list", "detail", "match-job", "apply"}

\* C1: every matchScore computed by GET /recommendations/personalized lies
\* in 0..100
C1_ScoreInRange ==
    \A i \in 1..Len(Recommended) :
        Recommended[i].matchScore >= 0 /\ Recommended[i].matchScore <= 100

\* reached: a recommendation with all four components full, scoring 100
C1_Witness ==
    /\ Len(Recommended) = 1
    /\ Recommended[1].matchScore = 100
    /\ ClaimM = ClaimT /\ ClaimT > 0 /\ ClaimFixedPoints = 50

\* C2: the recommendations matchScore is the integer nearest to S + R + L + W,
\* with S = 50 * M / T (0 when T = 0), R = 20 for a desired role that is a
\* case-insensitive substring of the title, L = 15 likewise for the location,
\* W = 15 for a set remote preference equal to the job's remote type
C2_ScoreIsRoundedSum ==
    \A i \in 1..Len(Recommended) : NearestToClaimedSum(Recommended[i].matchScore)

\* reached: one of three required skills matched plus the role, 16.67 + 20
\* rounded to 37
C2_Witness ==
    /\ Len(Recommended) = 1
    /\ ClaimT = 3 /\ ClaimM = 1 /\ ClaimFixedPoints = 20
    /\ Recommended[1].matchScore = 37

\* the threshold the specification gives a profile: its minMatchScore, and 50
\* only when that is unset
ClaimThreshold ==
    IF prefs.minMatchScore = NoNumber THEN 50 ELSE CHOOSE n \in prefs.minMatchScore : TRUE

\* C3: a scored job is kept by GET /recommendations/personalized exactly when
\* its matchScore >= the profile's minMatchScore (50 only when unset)
C3_KeptIffAtLeastMin ==
    res.op = "recommendations" =>
        \A i \in 1..Len(res.scored) :
            (res.scored[i] \in Elems(res.jobs)) <=>
                (res.scored[i].matchScore >= ClaimThreshold)

\* C4: POST /match-job returns isRecommended = (matchScore >= the user's
\* minMatchScore)
C4_RecommendedByUserThreshold ==
    (res.op = "match-job" /\ res.status = 200) =>
        \A n \in res.matchScore : res.isRecommended <=> (n >= ClaimThreshold)

\* C5: at every scoring call site the skill component is 0 when the job
\* requires no skill and 0 when the candidate has no skill, and the call
\* does not fail
C5_EmptySkillsScoreZero ==
    (res.op \in ScoringOps /\ (skills = <<>> \/ job.skillsRequired = <<>>)) =>
        /\ res.status # 500
        /\ \A i \in 1..Len(res.scored) :
              /\ res.scored[i].matchingSkills = <<>>
              /\ res.op = "recommendations" =>
                    res.scored[i].matchScore = ClaimFixedPoints
              /\ res.op # "recommendations" => res.scored[i].matchScore = 0

\* reached: an application to a job that requires no skill by a candidate who
\* has skills, stored with score 0
C5_Witness ==
    /\ res.op = "apply" /\ res.status = 201
    /\ skills # <<>> /\ job.skillsRequired = <<>>
    /\ res.scored[1].matchScore = 0

\* C6: a required skill counts as matched exactly when some candidate skill
\* contains it or is contained in it, ignoring letter case; the result is
\* the same with candidate and required skill swapped
C6_SymmetricSkillMatch ==
    /\ \A i \in 1..Len(res.scored) :
          /\ Len(res.scored[i].matchingSkills) = ClaimM
          /\ \A k \in 1..ClaimT :
                ClaimSkillMatched(job.skillsRequired[k]) <=>
                    (ToLowerCase(job.skillsRequired[k])
                        \in Elems(res.scored[i].matchingSkills))
    /\ \A c \in Elems(skills), j \in Elems(job.skillsRequired) :
          SkillMatches(<<ToLowerCase(c)>>, ToLowerCase(j))
              = SkillMatches(<<ToLowerCase(j)>>, ToLowerCase(c))

\* reached: a required skill longer than the candidate skill it contains in
\* another letter case, counted as matched by an application
C6_Witness ==
    /\ res.op = "apply" /\ res.status = 201
    /\ Len(skills) = 1 /\ ClaimT = 1
    /\ Len(job.skillsRequired[1]) > Len(skills[1])
    /\ ~Includes(job.skillsRequired[1], skills[1])
    /\ Len(res.scored[1].matchingSkills) = 1

\* the recommendations score of the stored data without a remote preference
ScoreWithoutRemote ==
    ScoreJob(UserSkills, [prefs EXCEPT !.remotePreference = NULL], job).matchScore

\* C7: the remote component (15 points, reason 'Matches work preference') is
\* awarded exactly when the remote preference is set and equals the job's
\* remote type
C7_RemoteExactEquality ==
    /\ \A i \in 1..Len(Recommended) :
          /\ ("Matches work preference" \in Elems(Recommended[i].matchReasons))
                <=> ClaimRemote
          /\ Recommended[i].matchScore =
                ScoreWithoutRemote + (IF ClaimRemote THEN 15 ELSE 0)
    /\ (res.op = "detail" /\ res.status = 200) =>
          \A i \in 1..Len(res.scored) :
              ("Matches your work preference" \in Elems(res.scored[i].matchReasons))
                  <=> ClaimRemote

\* reached: preference and job both hybrid, awarded
C7_Witness ==
    /\ Len(Recommended) = 1
    /\ prefs.remotePreference = <<"hybrid">> /\ job.remoteType = <<"hybrid">>
    /\ "Matches work preference" \in Elems(Recommended[1].matchReasons)

\* the recommendations score of the stored data without desired locations
ScoreWithoutLocations ==
    ScoreJob(UserSkills, [prefs EXCEPT !.desiredLocations = <<>>], job).matchScore

\* the recommendations score of the stored data without desired roles
ScoreWithoutRoles ==
    ScoreJob(UserSkills, [prefs EXCEPT !.desiredRoles = <<>>], job).matchScore

\* C9: scoring never raises, and an empty or unset input leaves its
\* component at 0 with no reason for it
C9_ScorerTotal ==
    /\ res.op \in ScoringOps => res.status # 500
    /\ \A i \in 1..Len(Recommended) :
          /\ (skills = <<>> \/ job.skillsRequired = <<>>) =>
                /\ Recommended[i].matchingSkills = <<>>
                /\ Len(Recommended[i].matchReasons) <= 3
          /\ job.location = NULL =>
                /\ "Preferred location" \notin Elems(Recommended[i].matchReasons)
                /\ Recommended[i].matchScore = ScoreWithoutLocations
          /\ prefs.desiredLocations \in {NullList, <<>>} =>
                "Preferred location" \notin Elems(Recommended[i].matchReasons)
          /\ prefs.desiredRoles \in {NullList, <<>>} =>
                /\ "Matches desired role" \notin Elems(Recommended[i].matchReasons)
                /\ Recommended[i].matchScore = ScoreWithoutRoles
          /\ (prefs.remotePreference = NULL \/ job.remoteType = NULL) =>
                /\ "Matches work preference" \notin Elems(Recommended[i].matchReasons)
                /\ Recommended[i].matchScore = ScoreWithoutRemote
    /\ (res.op = "detail" /\ res.status = 200 /\ job.location = NULL) =>
          \A i \in 1..Len(res.scored) :
              "Matches your preferred location" \notin Elems(res.scored[i].matchReasons)

\* reached: a job without location scored for a profile with desired locations
C9_Witness ==
    /\ Len(Recommended) = 1 /\ res.status = 200
    /\ job.location = NULL
    /\ prefs.desiredLocations # NullList /\ Len(prefs.desiredLocations) > 0

\* the reasons the specification lists, in evaluation order
ClaimReasons ==
    (IF ClaimM > 0 THEN <<ToString(ClaimM) \o " skill matches">> ELSE <<>>)
    \o (IF ClaimRole THEN <<"Matches desired role">> ELSE <<>>)
    \o (IF ClaimLocation THEN <<"Preferred location">> ELSE <<>>)
    \o (IF ClaimRemote THEN <<"Matches work preference">> ELSE <<>>)

\* C10: the recommendations reason list holds one reason per satisfied
\* component, in the order skills, role, location, remote preference
C10_ReasonsInEvaluationOrder ==
    \A i \in 1..Len(Recommended) : Recommended[i].matchReasons = ClaimReasons

\* reached: all four reasons
C10_Witness ==
    /\ Len(Recommended) = 1
    /\ Len(Recommended[1].matchReasons) = 4

-----------------------------------------------------------------------------
(* The skill-ratio score of the listing, the detail, the application and the
   AI match *)

RatioOps == {"list", "detail", "match-job", "apply"}

HasDuplicate(list) == \E i, k \in 1..Len(list) : i # k /\ list[i] = list[k]

\* C11: the score computed from the skill ratio alone (GET /api/jobs,
\* GET /api/jobs/:id, POST /api/applications, skillMatch.score of
\* POST /api/ai/match-job) is an integer between 0 and 100 for every skill
\* list, lists with duplicates or empty-string entries included: the matching
\* skills are never more than the required ones.
C11_RatioScoreInRange ==
    res.op \in RatioOps =>
        \A i \in 1..Len(res.scored) :
            /\ res.scored[i].matchScore \in 0..100
            /\ Len(res.scored[i].matchingSkills) <= Len(job.skillsRequired)
            /\ \A a \in 1..Len(applications) : applications[a].matchScore \in 0..100

\* a ratio score over required skills with a duplicate, and one over an
\* empty-string required skill
C11_Witness ==
    /\ res.op \in RatioOps
    /\ Len(res.scored) = 1
    /\ \/ HasDuplicate(job.skillsRequired) /\ HasDuplicate(skills)
          /\ res.scored[1].matchScore = 67
       \/ job.skillsRequired = << <<>> >> /\ res.scored[1].matchScore = 100

-----------------------------------------------------------------------------
(* Reads and documented weights *)

ReadOps == {"recommendations", "list", "detail"}

\* C12: computing match scores has no side effect: a step of
\* GET /recommendations/personalized, GET /api/jobs or GET /api/jobs/:id
\* leaves every stored profile, preference, job, application, subscription,
\* analytics and activity-log record as it was.
C12_ScoringLeavesStoreUnchanged ==
    [][res'.op \in ReadOps => db' = db]_vars

\* reached: a scored read answered while an application, its analytics count
\* and its activity-log row are stored
C12_Witness ==
    /\ res.op \in ReadOps /\ res.status = 200 /\ Len(res.scored) = 1
    /\ Len(applications) = 1 /\ totalApplications = 1 /\ Len(activityLog) = 1
    /\ subscription.autoAppliesUsed = 1

\* C13: the weights documented in the README (skills 50%, experience 20%,
\* location 15%, role alignment 15%): a full role match adds 15 points to the
\* recommendations score.
C13_ReadmeRoleWeight ==
    \A i \in 1..Len(Recommended) :
        ClaimRole => Recommended[i].matchScore = ScoreWithoutRoles + 15

-----------------------------------------------------------------------------
(* Applications, the auto-apply allowance and the Stripe webhook *)

C15_FreeUsedWithinLimit ==
    subscription.tier = "FREE" =>
        subscription.autoAppliesUsed <= subscription.autoAppliesLimit

\* the next auto-apply request of the user would pass the subscription check
AutoApplyAccepted ==
    ~(subscription.tier = "FREE"
        /\ subscription.autoAppliesUsed >= subscription.autoAppliesLimit)

\* C16: a FREE user has 5 auto-applies per month: the remainingAutoApplies
\* answered by GET /api/subscriptions/current is positive exactly when the
\* next auto-apply would be accepted, and a FREE user with no auto-applied
\* application in the current month can auto-apply.
C16_MonthlyAllowance ==
    [][/\ (res'.op = "current" /\ res' # res /\ subscription.tier = "FREE") =>
              ((\E n \in res'.remainingAutoApplies : n > 0) <=> AutoApplyAccepted)
       /\ (subscription'.tier = "FREE" /\ ApplicationsThisMonth' = 0) =>
              AutoApplyAccepted']_vars

\* C17: a webhook delivery without the signature header, without a
\* configured endpoint secret, or whose verification fails is answered 400,
\* no event handler runs, and no subscription, notification or activity-log
\* row is created or changed.
C17_UnverifiedWebhookRejected ==
    [][(res'.op = "webhook" /\ served' # served) =>
          LET rq == res'.request[1]
          IN  ((~rq.sig \/ ~endpointSecret \/ ~rq.verifies) \/ res'.status = 400) =>
                  /\ res'.status = 400
                  /\ UNCHANGED <<subscription, notifications, activityLog>>]_vars

\* reached: a delivery whose verification failed, answered 400, with a paid
\* subscription, a notification and an activity-log row in the store
C17_Witness ==
    /\ res.op = "webhook" /\ res.status = 400
    /\ res.request[1].sig /\ ~res.request[1].verifies /\ endpointSecret
    /\ subscription.tier = "PROFESSIONAL" /\ subscription.status = "past_due"
    /\ notifications = <<"payment_failed">>
    /\ activityLog = <<"subscription_started">>

-----------------------------------------------------------------------------
(* Tokens, password reset and roles *)

\* C18: after revokeAllUserTokens(userId) has completed, every refresh token
\* signed for that user before it is rejected by POST /api/auth/refresh.
C18_RevokedRefreshTokenRejected ==
    (res.op = "refresh" /\ res.request[1].revokedBefore) => res.status = 401

\* C19: POST /api/auth/forgot-password answers a registered and an
\* unregistered address with the same status and the same body, also when
\* the reset mail cannot be delivered: every answer to a well-formed address
\* is 200 with the one fixed message.
C19_ForgotPasswordSameAnswer ==
    (res.op = "forgot-password" /\ IsEmail(res.request[1].email)) =>
        /\ res.status = 200
        /\ res.message = ResetMessage

\* reached: the answer to an unregistered address, after a registered one
\* was sent its mail
C19_Witness ==
    /\ res.op = "forgot-password" /\ res.status = 200
    /\ ~res.request[1].registered /\ IsEmail(res.request[1].email)
    /\ outbox # {}

\* reached: the answer to a registered address written in upper case whose
\* mail could not be delivered
C19_WitnessUndelivered ==
    /\ res.op = "forgot-password" /\ res.status = 200
    /\ res.request[1].registered /\ ~res.request[1].delivered
    /\ res.request[1].email = <<"A", "b">>

\* C20: a user's role changes only through a request of a SUPER_ADMIN acting
\* on another user: no request of a USER or an ADMIN changes a role, and no
\* request changes the role of the user who sent it.
C20_RoleChangedBySuperAdminOnly ==
    [][\A u \in UserIds :
          users'[u].role # users[u].role =>
              /\ res'.request[1].storedRole = "SUPER_ADMIN"
              /\ res'.request[1].userId # u]_vars

-----------------------------------------------------------------------------
(* Deactivated accounts *)

AuthenticatedOps == {"me", "put-user", "put-role", "put-status"}

\* C21: while a user's isActive flag is false every request of that user is
\* refused: authenticate answers 401 without calling next(), also for an
\* unexpired access token; POST /api/auth/login answers 401, also with the
\* correct password; POST /api/auth/refresh answers 401 for the user's
\* refresh tokens; optionalAuth does not attach req.user.
C21_InactiveUserRefused ==
    (res.request # <<>> /\ res.op \in AuthenticatedOps \cup {"login", "refresh", "optional-auth"}
        /\ ~res.request[1].active) =>
            /\ res.op \in AuthenticatedOps \cup {"login", "refresh"} => res.status = 401
            /\ res.op = "optional-auth" => res.jobs = <<>>

\* reached: GET /api/auth/me refused for the genuine, unexpired access token
\* of a user an admin deactivated after the login
C21_Witness ==
    /\ res.op = "me" /\ res.status = 401
    /\ res.request[1].genuine /\ ~res.request[1].expired /\ ~res.request[1].active
    /\ res.request[1].userId = "u1"
    /\ ~users["u1"].isActive

-----------------------------------------------------------------------------
(* The per-user rate limit *)

RECURSIVE SumFrom(_, _, _)
\* f[lo] + ... + f[hi], over the times the clock has shown
SumFrom(f, lo, hi) ==
    IF lo > hi THEN 0
    ELSE (IF lo \in DOMAIN f THEN f[lo] ELSE 0) + SumFrom(f, lo + 1, hi)

\* the requests of u passed to next() from the start of u's current window
\* to its resetTime
PassedInWindow(u) ==
    IF requests[u] = <<>> THEN 0
    ELSE SumFrom(passes[u], requests[u][1].resetTime - windowMs,
                 requests[u][1].resetTime)

\* the same count once the request has been handled
PassedInWindowAfter(u) ==
    IF requests'[u] = <<>> THEN 0
    ELSE SumFrom(passes'[u], requests'[u][1].resetTime - windowMs,
                 requests'[u][1].resetTime)

\* u has a window and the clock has not passed its resetTime
InWindow(u) == requests[u] # <<>> /\ now <= requests[u][1].resetTime

\* C22: for a limiter made with maxRequests >= 1 and each authenticated user,
\* at most maxRequests requests are passed to next() between the start of a
\* window and its resetTime, a request is answered 429 and not passed on
\* exactly when the user's window already passed maxRequests, the entry kept
\* for one user is not changed by another user's request, and a request
\* without a user passes and is not counted.
C22_AtMostMaxPerWindow ==
    [][now' = now =>
          LET u == res'.request[1].userId
          IN  IF u = "anonymous"
              THEN /\ res'.status = 200
                   /\ requests' = requests /\ passes' = passes
              ELSE /\ res'.status =
                         IF InWindow(u) /\ PassedInWindow(u) >= maxRequests
                         THEN 429 ELSE 200
                   /\ res'.status = 429 => passes' = passes
                   /\ res'.status = 200 =>
                         SumFrom(passes'[u], 0, MaxTime) = SumFrom(passes[u], 0, MaxTime) + 1
                   /\ PassedInWindowAfter(u) <= maxRequests
                   /\ \A v \in LimitedUsers \ {u} :
                         requests'[v] = requests[v] /\ passes'[v] = passes[v]]_vars

\* reached: u1, whose first window is over, is answered 429 in its second
\* window after two requests were passed on in it, while u2 has a window of
\* its own with one request
C22_Witness ==
    /\ res.op = "rate-limit" /\ res.status = 429 /\ res.request[1].userId = "u1"
    /\ maxRequests = 2 /\ windowMs = 1
    /\ requests["u1"] = <<[count |-> 2, resetTime |-> 3]>> /\ now = 2
    /\ PassedInWindow("u1") = 2 /\ SumFrom(passes["u1"], 0, MaxTime) = 3
    /\ requests["u2"] # <<>> /\ requests["u2"][1].count = 1

====
